---- MODULE Spec2Model ----
(***************************************************************************)
(* babel-filter: filter a directory of line-delimited Babel records        *)
(* against the identifiers of a filter file (babel_filter/src/lib.rs, run).*)
(*                                                                         *)
(* Text is a sequence of one-character strings.  A file name is the        *)
(* sequence of its parts between dots: a.txt.gz is <<"a", "txt", "gz">>.   *)
(* An Option is a sequence of length 0 (None) or 1 (Some).  Files are read *)
(* lazily: each step draws the next line, and the lines read so far are    *)
(* kept as the file's content.  A path of the output directory is the file *)
(* name inside it.                                                         *)
(*                                                                         *)
(* Spec takes serde_json::to_string as total on BabelJson (strings, lists  *)
(* of strings and an integer).  SpecEncodeErr adds the Err arm that the    *)
(* reconciliation loop handles.                                            *)
(***************************************************************************)
EXTENDS Integers, Sequences, FiniteSets, TLC

\* ---------------------------------------------------------------- bounds
MaxFilterLines == 2
MaxEntries == 2
MaxBabelLines == 2

\* ---------------------------------------------------------------- values
None == <<>>
Some(x) == <<x>>

BIOLINK == <<"b", "i", "o", "l", "i", "n", "k", ":">>
TagGene == BIOLINK \o <<"G", "e", "n", "e">>
TagNamedThing == BIOLINK \o <<"N", "a", "m", "e", "d", "T", "h", "i", "n", "g">>
TagDrug == BIOLINK \o <<"D", "r", "u", "g">>
\* a tag holding the prefix twice, not at its start: "xbiolink:biolink:y"
TagOdd == <<"x">> \o BIOLINK \o BIOLINK \o <<"y">>

NameBRCA1 == <<"B", "R", "C", "A", "1">>
\* "Zoë": the last character takes two bytes in UTF-8
NameZoe == <<"Z", "o", "U+00EB">>
TwoByteChars == {"U+00EB"}

Ids == {"A", "B"}
CatGene == <<TagGene, TagNamedThing>>
CatDrug == <<TagDrug, TagOdd>>
ExcludeOptions == {None, Some(<<>>), Some(<<TagDrug>>)}
OutputFormats == {None, Some("Plaintext"), Some("Gzipped")}

\* the filter records drawn: per id, two that differ in name and category
NodeListJson ==
    {[id |-> i, name |-> NameBRCA1, category |-> CatGene] : i \in Ids}
        \cup {[id |-> i, name |-> NameZoe, category |-> CatDrug] : i \in Ids}

\* the lines a filter file may hold: a record, or a line that fails to be
\* read or to parse (both are reported and skipped)
FilterLines == [kind : {"ok"}, json : NodeListJson] \cup {[kind |-> "bad"]}

BabelJson(c) ==
    [curie |-> c, names |-> <<>>, types |-> <<>>, preferred_name |-> None,
     shortest_name_length |-> None, taxa |-> <<>>]

\* the lines an input file may hold; extra: the line carries a field that
\* BabelJson does not declare
BabelLines ==
    {[kind |-> "ok", json |-> BabelJson(c), extra |-> x] : c \in Ids, x \in BOOLEAN}
        \cup {[kind |-> "bad"]}

FileA_txt == <<"a", "txt">>
FileA_txt_gz == <<"a", "txt", "gz">>
NonBabelNodes == <<"NonBabelNodes", "txt", "gz">>

\* what read_dir may yield: regular files, a subdirectory, an entry error
DirEntries ==
    {[kind |-> "file", name |-> n] : n \in {FileA_txt, FileA_txt_gz, NonBabelNodes}}
        \cup {[kind |-> "dir", name |-> <<"sub">>], [kind |-> "err", name |-> <<"?">>]}

\* ---------------------------------------------------------------- codecs
\* reading a line and serde_json::from_str: Some(record) for a line that is
\* read and parses
from_str(line) == IF line.kind = "ok" THEN Some(line.json) ELSE None

\* serde_json::to_string: the record's own fields and nothing else
to_string(rec) == [kind |-> "ok", json |-> rec, extra |-> FALSE]

\* ---------------------------------------------------------------- paths
\* Path::extension: the part after the last dot, unless the name has no dot
\* or its only dot is its first character
extension(p) ==
    IF Len(p) < 2 \/ (Len(p) = 2 /\ p[1] = "") THEN None ELSE Some(p[Len(p)])

\* Path::with_extension: drop the extension, if any, then add the new one
with_extension(p, ext) ==
    LET stem == IF extension(p) = None THEN p ELSE SubSeq(p, 1, Len(p) - 1)
    IN  IF ext = "" THEN stem ELSE Append(stem, ext)

\* the output path of an input file, as a name inside the output directory
output_file_path(name, format) ==
    IF format = Some("Plaintext")
    THEN IF extension(name) = Some("gz") THEN with_extension(name, "") ELSE name
    ELSE IF format = Some("Gzipped")
         THEN IF extension(name) # Some("gz") THEN with_extension(name, "gz") ELSE name
         ELSE name

non_babel_nodes_path == NonBabelNodes

\* ---------------------------------------------------------------- filter set
has_excluded_category(set, exclude_set) ==
    IF exclude_set = <<>>
    THEN FALSE
    ELSE \E i \in 1..Len(set) : \E j \in 1..Len(exclude_set) : set[i] = exclude_set[j]

\* a map that keeps the value already stored under the key
insert_if_absent(fs, k, v) ==
    [x \in (DOMAIN fs) \cup {k} |-> IF x \in DOMAIN fs THEN fs[x] ELSE v]

\* AHashMap::insert: the new value replaces the one stored under the key
insert(fs, k, v) == [x \in (DOMAIN fs) \cup {k} |-> IF x = k THEN v ELSE fs[x]]

\* AHashMap::remove
remove(fs, k) == [x \in (DOMAIN fs) \ {k} |-> fs[x]]

EmptyMap == [x \in {} |-> None]

\* ---------------------------------------------------------------- strings
\* removes the first occurrence only
replace_first(s, from) ==
    IF \E i \in 1..(Len(s) - Len(from) + 1) : SubSeq(s, i, i + Len(from) - 1) = from
    THEN LET i == CHOOSE i \in 1..(Len(s) - Len(from) + 1) :
                    /\ SubSeq(s, i, i + Len(from) - 1) = from
                    /\ \A j \in 1..(i - 1) : SubSeq(s, j, j + Len(from) - 1) # from
         IN  SubSeq(s, 1, i - 1) \o SubSeq(s, i + Len(from), Len(s))
    ELSE s

\* str::replace(from, ""): leftmost matches, left to right, not overlapping
RECURSIVE replace(_, _)
replace(s, from) ==
    IF Len(s) < Len(from)
    THEN s
    ELSE IF SubSeq(s, 1, Len(from)) = from
         THEN replace(SubSeq(s, Len(from) + 1, Len(s)), from)
         ELSE <<s[1]>> \o replace(Tail(s), from)

\* String::len: the length in bytes of the UTF-8 encoding
RECURSIVE len(_)
len(s) == IF s = <<>> THEN 0 ELSE (IF s[1] \in TwoByteChars THEN 2 ELSE 1) + len(Tail(s))

\* the record reconciliation builds for a leftover entry
converted_node(curie, node) ==
    [curie |-> curie,
     names |-> <<node.name>>,
     types |-> [i \in 1..Len(node.category) |-> replace(node.category[i], BIOLINK)],
     preferred_name |-> Some(node.name),
     shortest_name_length |-> Some(len(node.name)),
     taxa |-> <<>>]

\* ---------------------------------------------------------------- state
VARIABLES
    pc,                 \* where run() is
    exclude_category,   \* args.exclude_category
    output_format,      \* args.output_format
    filterInput,        \* the lines of the filter file read so far
    filter_set,         \* id -> NodeListJson
    built,              \* filter_set as it was when the build phase ended
    num_removed,
    errs,               \* number of errors reported on stderr
    dirSeen,            \* the directory entries read_dir has yielded
    files,              \* one record per input file opened, the last is current
    disk,               \* output directory: path -> lines
    remaining,          \* ids the reconciliation loop has yet to visit
    filter_set_size,
    reported,           \* the count printed after reconciliation
    panicked            \* message of the expect/unwrap that failed, or "none"

vars ==
    <<pc, exclude_category, output_format, filterInput, filter_set, built, num_removed,
      errs, dirSeen, files, disk, remaining, filter_set_size, reported, panicked>>

config == <<exclude_category, output_format>>
buildVars == <<filterInput, filter_set, built, num_removed>>
scanVars == <<dirSeen, files>>
reconVars == <<remaining, filter_set_size, reported>>

Init ==
    /\ pc = "start"
    /\ exclude_category \in ExcludeOptions
    /\ output_format \in OutputFormats
    /\ filterInput = <<>>
    /\ filter_set = EmptyMap
    /\ built = EmptyMap
    /\ num_removed = 0
    /\ errs = 0
    /\ dirSeen = <<>>
    /\ files = <<>>
    /\ disk = EmptyMap
    /\ remaining = {}
    /\ filter_set_size = 0
    /\ reported = None
    /\ panicked = "none"

\* the failure is noted and the run goes on
PanicSkip(msg) ==
    /\ pc' = pc
    /\ panicked' = msg

\* what a failed expect or unwrap does to the control state
Panic(msg) ==
    /\ pc' = "halted"
    /\ panicked' = msg

\* Writer::new: File::create makes the file, or empties it when it exists
create(d, path) == [p \in (DOMAIN d) \cup {path} |-> IF p = path THEN <<>> ELSE d[p]]

\* Writer::write_line
write_line(d, path, line) == [d EXCEPT ![path] = Append(@, line)]

\* ---------------------------------------------------------------- start
\* one of the three paths fails its check: exit with FAILURE
ConfigError ==
    /\ pc = "start"
    /\ pc' = "failed"
    /\ errs' = errs + 1
    /\ UNCHANGED <<config, buildVars, scanVars, disk, reconVars, panicked>>

OpenFilter ==
    /\ pc = "start"
    /\ pc' = "build"
    /\ UNCHANGED <<config, buildVars, errs, scanVars, disk, reconVars, panicked>>

OpenFilterFail ==
    /\ pc = "start"
    /\ Panic("Error opening filter file")
    /\ UNCHANGED <<config, buildVars, errs, scanVars, disk, reconVars>>

\* ---------------------------------------------------------------- build
\* the filter set after one decoded record
build_insert(fs, node, exclude) ==
    IF exclude # None
    THEN IF ~has_excluded_category(node.category, exclude[1])
         THEN insert(fs, node.id, node)
         ELSE fs
    ELSE insert(fs, node.id, node)

build_removed(n, node, exclude) ==
    IF exclude # None /\ has_excluded_category(node.category, exclude[1]) THEN n + 1 ELSE n

BuildLine ==
    /\ pc = "build"
    /\ Len(filterInput) < MaxFilterLines
    /\ \E line \in FilterLines :
        /\ filterInput' = Append(filterInput, line)
        /\ IF from_str(line) # None
           THEN /\ filter_set' = build_insert(filter_set, from_str(line)[1], exclude_category)
                /\ num_removed' = build_removed(num_removed, from_str(line)[1], exclude_category)
                /\ errs' = errs
           ELSE /\ errs' = errs + 1
                /\ UNCHANGED <<filter_set, num_removed>>
    /\ UNCHANGED <<pc, config, built, scanVars, disk, reconVars, panicked>>

\* end of the filter file; read_dir succeeds
BuildEnd ==
    /\ pc = "build"
    /\ pc' = "scan_dir"
    /\ built' = filter_set
    /\ UNCHANGED <<config, filterInput, filter_set, num_removed, errs, scanVars, disk,
                   reconVars, panicked>>

ReadDirFail ==
    /\ pc = "build"
    /\ built' = filter_set
    /\ Panic("read_dir")
    /\ UNCHANGED <<config, filterInput, filter_set, num_removed, errs, scanVars, disk,
                   reconVars>>

\* ---------------------------------------------------------------- scan
Range(s) == {s[i] : i \in 1..Len(s)}

RECURSIVE lines_read(_)
lines_read(fs) == IF fs = <<>> THEN 0 ELSE Len(fs[1].input) + lines_read(Tail(fs))

NextEntries == {e \in DirEntries : e \notin Range(dirSeen)}

\* read_dir yields an error for an entry: reported, the entry is skipped
DirEntryErr ==
    /\ pc = "scan_dir"
    /\ Len(dirSeen) < MaxEntries
    /\ \E e \in NextEntries :
        /\ e.kind = "err"
        /\ dirSeen' = Append(dirSeen, e)
    /\ errs' = errs + 1
    /\ UNCHANGED <<pc, config, buildVars, files, disk, reconVars, panicked>>

\* an entry that is not a regular file
DirEntrySkip ==
    /\ pc = "scan_dir"
    /\ Len(dirSeen) < MaxEntries
    /\ \E e \in NextEntries :
        /\ e.kind = "dir"
        /\ dirSeen' = Append(dirSeen, e)
    /\ UNCHANGED <<pc, config, buildVars, errs, files, disk, reconVars, panicked>>

new_file(name) ==
    [name |-> name, path |-> output_file_path(name, output_format),
     input |-> <<>>, written |-> <<>>, num_nodes |-> 0, num_kept |-> 0]

\* a regular file: its reader and its writer open
OpenFile ==
    /\ pc = "scan_dir"
    /\ Len(dirSeen) < MaxEntries
    /\ \E e \in NextEntries :
        /\ e.kind = "file"
        /\ dirSeen' = Append(dirSeen, e)
        /\ files' = Append(files, new_file(e.name))
        /\ disk' = create(disk, output_file_path(e.name, output_format))
    /\ pc' = "scan_file"
    /\ UNCHANGED <<config, buildVars, errs, reconVars, panicked>>

OpenReaderFail ==
    /\ pc = "scan_dir"
    /\ Len(dirSeen) < MaxEntries
    /\ \E e \in NextEntries :
        /\ e.kind = "file"
        /\ dirSeen' = Append(dirSeen, e)
    /\ Panic("Error opening file for reading")
    /\ UNCHANGED <<config, buildVars, errs, files, disk, reconVars>>

CreateWriterFail ==
    /\ pc = "scan_dir"
    /\ Len(dirSeen) < MaxEntries
    /\ \E e \in NextEntries :
        /\ e.kind = "file"
        /\ dirSeen' = Append(dirSeen, e)
    /\ Panic("Error creating file")
    /\ UNCHANGED <<config, buildVars, errs, files, disk, reconVars>>

\* the line is read and decodes
decodes(line) == from_str(line) # None

\* the line is written: it decodes and its curie is a key of the filter set
matches(fs, line) == decodes(line) /\ from_str(line)[1].curie \in DOMAIN fs

\* counts the lines that decode only
count_line_decoded(n, line) == IF from_str(line) # None THEN n + 1 ELSE n

\* num_nodes after a line
count_line(n, line) == n + 1

\* the record decoded from the line, serialized again
kept_line_reserialized(node_json) == to_string(from_str(node_json)[1])

\* the text handed to write_line for a matched line
kept_line(node_json) == node_json

\* the filter set after a line
scan_remove(fs, line) == IF matches(fs, line) THEN remove(fs, from_str(line)[1].curie) ELSE fs

cur == files[Len(files)]

\* one line of the current input file; a matched line is written
ScanLine ==
    /\ pc = "scan_file"
    /\ lines_read(files) < MaxBabelLines
    /\ \E line \in BabelLines :
        /\ files' = [files EXCEPT ![Len(files)] =
                [@ EXCEPT !.input = Append(@, line),
                          !.num_nodes = count_line(@, line),
                          !.num_kept = IF matches(filter_set, line) THEN @ + 1 ELSE @,
                          !.written = IF matches(filter_set, line)
                                      THEN Append(@, kept_line(line)) ELSE @]]
        /\ filter_set' = scan_remove(filter_set, line)
        /\ disk' = IF matches(filter_set, line)
                   THEN write_line(disk, cur.path, kept_line(line))
                   ELSE disk
        /\ errs' = IF decodes(line) THEN errs ELSE errs + 1
    /\ UNCHANGED <<pc, config, filterInput, built, num_removed, dirSeen, reconVars, panicked>>

\* a matched line whose write fails
WriteLineFail ==
    /\ pc = "scan_file"
    /\ lines_read(files) < MaxBabelLines
    /\ \E line \in BabelLines :
        /\ matches(filter_set, line)
        /\ files' = [files EXCEPT ![Len(files)] =
                [@ EXCEPT !.input = Append(@, line),
                          !.num_nodes = count_line(@, line),
                          !.num_kept = @ + 1]]
        /\ filter_set' = scan_remove(filter_set, line)
    /\ Panic("Error writing line")
    /\ UNCHANGED <<config, filterInput, built, num_removed, errs, dirSeen, disk, reconVars>>

\* end of the current input file: statistics are printed
EndFile ==
    /\ pc = "scan_file"
    /\ pc' = "scan_dir"
    /\ UNCHANGED <<config, buildVars, errs, scanVars, disk, reconVars, panicked>>

\* ---------------------------------------------------------------- reconciliation
\* read_dir is exhausted: the overflow file is created
CreateOverflow ==
    /\ pc = "scan_dir"
    /\ pc' = "reconcile"
    /\ disk' = create(disk, non_babel_nodes_path)
    /\ filter_set_size' = Cardinality(DOMAIN filter_set)
    /\ remaining' = DOMAIN filter_set
    /\ UNCHANGED <<config, buildVars, errs, scanVars, reported, panicked>>

CreateOverflowFail ==
    /\ pc = "scan_dir"
    /\ Panic("Error creating NonBabelNodes file")
    /\ UNCHANGED <<config, buildVars, errs, scanVars, disk, reconVars>>

\* one entry of the filter set, in the map's order
ReconcileEntry ==
    /\ pc = "reconcile"
    /\ \E curie \in remaining :
        /\ remaining' = remaining \ {curie}
        /\ disk' = write_line(disk, non_babel_nodes_path,
                              to_string(converted_node(curie, filter_set[curie])))
    /\ UNCHANGED <<pc, config, buildVars, errs, scanVars, filter_set_size, reported, panicked>>

ReconcileWriteFail ==
    /\ pc = "reconcile"
    /\ \E curie \in remaining : remaining' = remaining \ {curie}
    /\ Panic("Error writing line")
    /\ UNCHANGED <<config, buildVars, errs, scanVars, disk, filter_set_size, reported>>

\* the Err arm of serde_json::to_string: reported, the entry is skipped
ReconcileEncodeErr ==
    /\ pc = "reconcile"
    /\ \E curie \in remaining : remaining' = remaining \ {curie}
    /\ errs' = errs + 1
    /\ UNCHANGED <<pc, config, buildVars, scanVars, disk, filter_set_size, reported, panicked>>

\* the loop is over: the count is printed and run returns SUCCESS
Finish ==
    /\ pc = "reconcile"
    /\ remaining = {}
    /\ reported' = Some(filter_set_size)
    /\ pc' = "done"
    /\ UNCHANGED <<config, buildVars, errs, scanVars, disk, remaining, filter_set_size, panicked>>

Next ==
    \/ ConfigError
    \/ OpenFilter
    \/ OpenFilterFail
    \/ BuildLine
    \/ BuildEnd
    \/ ReadDirFail
    \/ DirEntryErr
    \/ DirEntrySkip
    \/ OpenFile
    \/ OpenReaderFail
    \/ CreateWriterFail
    \/ ScanLine
    \/ WriteLineFail
    \/ EndFile
    \/ CreateOverflow
    \/ CreateOverflowFail
    \/ ReconcileEntry
    \/ ReconcileWriteFail
    \/ Finish

Spec == Init /\ [][Next]_vars

\* the same program when serde_json::to_string may return Err
NextEncodeErr == Next \/ ReconcileEncodeErr

SpecEncodeErr == Init /\ [][NextEncodeErr]_vars

\* ---------------------------------------------------------------- properties
Last(s) == s[Len(s)]

BuildOver == pc \notin {"start", "build", "failed"}

\* the tags of a category that the exclusion list names
SharedTags(cat, exclude) == IF exclude = None THEN {} ELSE Range(cat) \cap Range(exclude[1])

\* places of the output directory holding a line whose curie is i
PlacesOf(i) ==
    UNION {{<<p, k>> : k \in {n \in 1..Len(disk[p]) : disk[p][n].json.curie = i}} :
           p \in DOMAIN disk}

\* C1: after a completed run every identifier of the filter set built
\* appears as the curie of exactly one line of the output directory
C1_ExactlyOneOutputLine ==
    pc = "done" => \A i \in DOMAIN built : Cardinality(PlacesOf(i)) = 1

\* C2: the id of a decoded filter record whose category shares a tag with
\* the exclusion list is not a key of the filter set when the build ends
C2_ExcludedIdNotInFilterSet ==
    BuildOver =>
        \A k \in 1..Len(filterInput) :
            (filterInput[k].kind = "ok"
             /\ SharedTags(filterInput[k].json.category, exclude_category) # {})
                => filterInput[k].json.id \notin DOMAIN built

\* w is s with some elements left out
IsSubsequence(w, s) ==
    \E f \in [1..Len(w) -> 1..Len(s)] :
        /\ \A a, b \in 1..Len(w) : a < b => f[a] < f[b]
        /\ \A a \in 1..Len(w) : w[a] = s[f[a]]

C3_Subsequence == \A n \in 1..Len(files) : IsSubsequence(files[n].written, files[n].input)

C3_WriteStep ==
    (pc = "scan_file" /\ Len(files') = Len(files) /\ files'[Len(files)].written # cur.written)
        => LET new == files'[Len(files)]
               line == Last(new.input)
           IN  /\ new.input = Append(cur.input, line)
               /\ new.written = Append(cur.written, line)
               /\ disk'[cur.path] = Append(disk[cur.path], line)
               /\ line.kind = "ok"
               /\ line.json.curie \in DOMAIN filter_set

\* C3: the lines written for an input file are lines of that file, unchanged
\* and in input order; a line is written only when it decodes and its curie
\* is then a key of the filter set
C3_RawLineFidelity == []C3_Subsequence /\ [][C3_WriteStep]_vars

C3_Witness ==
    \E n \in 1..Len(files) :
        /\ Len(files[n].input) = 2
        /\ Len(files[n].written) = 1
        /\ files[n].input[1].kind = "ok"
        /\ files[n].written[1].extra
        /\ files[n].written[1] = files[n].input[2]

\* C4: after a completed run no two input files share an output path and no
\* input file's output path is the overflow file's path
C4_DistinctOutputPaths ==
    pc = "done" =>
        /\ \A a, b \in 1..Len(files) : a # b => files[a].path # files[b].path
        /\ \A a \in 1..Len(files) : files[a].path # non_babel_nodes_path

EndsInGz(name) == Len(name) >= 2 /\ Last(name) = "gz"

\* the output name the rule of C5 gives
RulePath(name, format) ==
    IF format = Some("Plaintext")
    THEN IF EndsInGz(name) THEN SubSeq(name, 1, Len(name) - 1) ELSE name
    ELSE IF format = Some("Gzipped")
         THEN IF EndsInGz(name) THEN name ELSE Append(name, "gz")
         ELSE name

\* C5: the output path is the input file's name, unchanged when no format is
\* forced, without a trailing .gz under Plaintext, with .gz appended unless
\* already there under Gzipped
C5_OutputPathRule ==
    \A n \in 1..Len(files) : files[n].path = RulePath(files[n].name, output_format)

\* the positions of s where the prefix starts
PrefixAt(s) ==
    {i \in 1..(Len(s) - Len(BIOLINK) + 1) : SubSeq(s, i, i + Len(BIOLINK) - 1) = BIOLINK}

\* the positions of s outside every occurrence of the prefix
Outside(s) == {j \in 1..Len(s) : \A i \in PrefixAt(s) : j < i \/ j > i + Len(BIOLINK) - 1}

RECURSIVE KeepFrom(_, _, _)
KeepFrom(s, K, j) ==
    IF j > Len(s) THEN <<>> ELSE (IF j \in K THEN <<s[j]>> ELSE <<>>) \o KeepFrom(s, K, j + 1)

\* s without the occurrences of the prefix
Stripped(s) == KeepFrom(s, Outside(s), 1)

ByteLength(s) == Len(s) + Cardinality({j \in 1..Len(s) : s[j] \in TwoByteChars})

OverflowLinesOf(i) ==
    {k \in 1..Len(disk[non_babel_nodes_path]) : disk[non_babel_nodes_path][k].json.curie = i}

ShapeOf(i, node, rec) ==
    /\ rec.curie = i
    /\ rec.names = <<node.name>>
    /\ Len(rec.types) = Len(node.category)
    /\ \A t \in 1..Len(node.category) : rec.types[t] = Stripped(node.category[t])
    /\ rec.preferred_name = Some(node.name)
    /\ rec.shortest_name_length = Some(ByteLength(node.name))
    /\ rec.taxa = <<>>
    /\ (node.name = NameBRCA1 /\ node.category = <<TagGene, TagNamedThing>>)
           => /\ rec.types = <<<<"G", "e", "n", "e">>,
                               <<"N", "a", "m", "e", "d", "T", "h", "i", "n", "g">>>>
              /\ rec.shortest_name_length = Some(5)

\* C6: when reconciliation is over, each entry left in the filter set has
\* one line in the overflow file, the record synthesized from it: its id as
\* curie, its name as the only name and as preferred name, its tags without
\* the biolink: prefix, the byte length of its name, no taxa
C6_ReconciliationShape ==
    pc = "done" =>
        /\ Len(disk[non_babel_nodes_path]) = Cardinality(DOMAIN filter_set)
        /\ \A i \in DOMAIN filter_set :
            /\ Cardinality(OverflowLinesOf(i)) = 1
            /\ \A k \in OverflowLinesOf(i) :
                /\ ~disk[non_babel_nodes_path][k].extra
                /\ ShapeOf(i, filter_set[i], disk[non_babel_nodes_path][k].json)

C6_Witness ==
    /\ pc = "done"
    /\ \E i \in DOMAIN filter_set :
        /\ filter_set[i].name = NameBRCA1
        /\ filter_set[i].category = <<TagGene, TagNamedThing>>
    /\ \E i \in DOMAIN filter_set : filter_set[i].category = CatDrug

CountBad(s) == Cardinality({k \in 1..Len(s) : s[k].kind = "bad"})

RECURSIVE BadBabelLines(_)
BadBabelLines(fs) == IF fs = <<>> THEN 0 ELSE CountBad(fs[1].input) + BadBabelLines(Tail(fs))

\* every line read is counted, and every error reported is a configuration
\* error, an entry read_dir failed on, or one malformed line
C7_Counters ==
    /\ \A n \in 1..Len(files) : files[n].num_nodes = Len(files[n].input)
    /\ errs = CountBad(filterInput) + BadBabelLines(files)
                + Cardinality({k \in 1..Len(dirSeen) : dirSeen[k].kind = "err"})
                + (IF pc = "failed" THEN 1 ELSE 0)

C7_ScanStep ==
    (pc = "scan_file" /\ Len(files') = Len(files) /\ files' # files)
        => LET new == files'[Len(files)]
               line == Last(new.input)
           IN  /\ new.input = Append(cur.input, line)
               /\ new.num_nodes = cur.num_nodes + 1
               /\ line.kind = "bad"
                    => /\ errs' = errs + 1
                       /\ new.num_kept = cur.num_kept
                       /\ new.written = cur.written
                       /\ UNCHANGED <<filter_set, disk, pc, panicked>>
               /\ line.kind = "ok"
                    => /\ errs' = errs
                       /\ (filter_set' # filter_set) = (line.json.curie \in DOMAIN filter_set)
                       /\ (new.num_kept = cur.num_kept + 1) = (line.json.curie \in DOMAIN filter_set)

C7_BuildStep ==
    (pc = "build" /\ filterInput' # filterInput /\ Last(filterInput').kind = "bad")
        => /\ errs' = errs + 1
           /\ UNCHANGED <<filter_set, num_removed, pc, panicked>>

\* C7: a malformed line is counted as processed, reported once, not written,
\* not counted as kept, leaves the filter set as it is and does not halt the
\* run; a well-formed line is tested against the filter set; the same for
\* the malformed lines of the filter file
C7_DecodeTolerance == []C7_Counters /\ [][C7_ScanStep /\ C7_BuildStep]_vars

C7_Witness ==
    /\ pc = "done"
    /\ Len(filterInput) = 2
    /\ filterInput[1].kind = "bad"
    /\ \E n \in 1..Len(files) :
        /\ Len(files[n].input) = 2
        /\ files[n].input[1].kind = "bad"
        /\ Len(files[n].written) = 1

C8_Halted ==
    /\ (panicked # "none") = (pc = "halted")
    /\ pc = "halted" => reported = None
    /\ panicked = "Error opening filter file" => (disk = EmptyMap /\ files = <<>>)

\* the step on which something fails creates and writes nothing, and no step
\* follows it
C8_HaltStep ==
    /\ panicked = "none"
    /\ panicked' # "none"
         => /\ pc' = "halted"
            /\ disk' = disk
            /\ Len(files') = Len(files)
            /\ \A n \in 1..Len(files) : files'[n].written = files[n].written

\* C8: a failure to open the filter file, to open an input file, to create
\* an output file or to write a line halts the run at once: nothing is
\* opened, created or written afterwards
C8_FatalErrorsHalt == []C8_Halted /\ [][C8_HaltStep]_vars

C8_Witness ==
    /\ pc = "halted"
    /\ panicked = "Error opening file for reading"
    /\ Len(dirSeen) = 2
    /\ Len(files) = 1
    /\ files[1].written # <<>>
    /\ DOMAIN filter_set # {}

\* the lines of the filter file that insert a record under id i
InsertingLines(i) ==
    {k \in 1..Len(filterInput) :
        /\ filterInput[k].kind = "ok"
        /\ filterInput[k].json.id = i
        /\ SharedTags(filterInput[k].json.category, exclude_category) = {}}

LastOf(S) == CHOOSE k \in S : \A j \in S : j <= k

\* C9: when the build is over the filter set holds, for each id, the record
\* of the last decoded, non-excluded line with that id, and an overflow line
\* carries the name and the tags of that record
C9_LastSeenWins ==
    /\ BuildOver =>
        /\ DOMAIN built = {i \in Ids : InsertingLines(i) # {}}
        /\ \A i \in DOMAIN built : built[i] = filterInput[LastOf(InsertingLines(i))].json
    /\ pc = "done" =>
        \A i \in DOMAIN filter_set :
            /\ filter_set[i] = filterInput[LastOf(InsertingLines(i))].json
            /\ \A k \in OverflowLinesOf(i) :
                LET rec == disk[non_babel_nodes_path][k].json
                    node == filterInput[LastOf(InsertingLines(i))].json
                IN  /\ rec.names = <<node.name>>
                    /\ Len(rec.types) = Len(node.category)

C9_Witness ==
    /\ pc = "done"
    /\ Len(filterInput) = 2
    /\ \E i \in DOMAIN filter_set :
        /\ InsertingLines(i) = {1, 2}
        /\ filterInput[1] # filterInput[2]
        /\ OverflowLinesOf(i) # {}

\* C10: the count printed after reconciliation is the number of lines
\* written to the overflow file
C10_ReportedCountIsLinesWritten ==
    pc = "done" => reported = Some(Len(disk[non_babel_nodes_path]))
====
